---- MODULE Spec2Model ----
(***************************************************************************)
(* A model of the rulsp interpreter core: the value model (data.rs), the   *)
(* environment chain (env.rs), the host functions (core.rs) and the        *)
(* evaluator (eval.rs).                                                    *)
(*                                                                         *)
(* Environments are Rc<RefCell<EnvType>> in the source; here they are      *)
(* indices into `heap`, a sequence of frames, so that sharing and later    *)
(* mutation of a captured frame are visible.  Frames are never removed     *)
(* (an Rc that is dropped is simply no longer referenced).                 *)
(***************************************************************************)
EXTENDS Integers, Sequences, FiniteSets, TLC

VARIABLES heap, hist, last

vars == <<heap, hist, last>>

(***************************************************************************)
(* Bounds of the model.                                                    *)
(***************************************************************************)
MaxSteps  == 4      \* top-level evaluations per behaviour
MaxDepth  == 8      \* nesting of eval calls before the host stack is exhausted
MaxFrames == 3      \* frames built through the environment API
MaxArgs   == 3      \* arguments handed to apply / nth
MaxParams == 4      \* entries of a parameter list, the marker included
MaxList   == 3      \* length of the list handed to nth
UsizeBits == 16     \* width of usize in the model (64 on the usual target)

(***************************************************************************)
(* data.rs: the value model.                                               *)
(***************************************************************************)
\* AtomType: Nil | Int(i64) | Symbol | List | Func | AFunc
c_nil == [t |-> "Nil"]

c_int(num) == [t |-> "Int", n |-> num]

c_symbol(str) == [t |-> "Symbol", s |-> str]

c_list(seq) == [t |-> "List", l |-> seq]

\* a host function is named by its entry in the table of core.rs
c_func(name) == [t |-> "Func", f |-> name]

c_afunc(env, params, exp) ==
    [t |-> "AFunc", exp |-> exp, env |-> env, params |-> params, is_macro |-> FALSE]

c_macro(fd) == [fd EXCEPT !.is_macro = TRUE]

is_symbol(v, sym) == v.t = "Symbol" /\ v.s = sym

\* AtomRet: Ok(value) or Err(AtomError)
Ok(v) == [ok |-> TRUE, val |-> v]

Err(e) == [ok |-> FALSE, err |-> e]

InvalidType(expected, received) ==
    [kind |-> "InvalidType", expected |-> expected, received |-> received]

InvalidOperation(op) == [kind |-> "InvalidOperation", op |-> op]

UndefinedSymbol(name) == [kind |-> "UndefinedSymbol", name |-> name]

\* Not an AtomError: the process ends (unreachable!(), stack exhaustion).
Abort(why) == [kind |-> "Abort", why |-> why]

RECURSIVE format(_, _)
RECURSIVE format_join(_, _)
format_join(seq, with_type) ==
    IF Len(seq) = 0 THEN ""
    ELSE IF Len(seq) = 1 THEN format(seq[1], with_type)
    ELSE format(seq[1], with_type) \o " " \o format_join(Tail(seq), with_type)

format(v, with_type) ==
    IF with_type
    THEN CASE v.t = "Int"    -> "Int(" \o ToString(v.n) \o ")"
           [] v.t = "List"   -> "List(" \o format_join(v.l, TRUE) \o ")"
           [] v.t = "Nil"    -> "Nil()"
           [] v.t = "Symbol" -> "Symbol(" \o v.s \o ")"
           [] v.t = "Func"   -> "#func()"
           [] v.t = "AFunc"  ->
                "#" \o (IF v.is_macro THEN "macro" ELSE "builtin_func")
                    \o "(exp=" \o format(v.exp, FALSE)
                    \o " params=" \o format(v.params, TRUE) \o ")"
    ELSE CASE v.t = "Int"    -> ToString(v.n)
           [] v.t = "List"   -> "(" \o format_join(v.l, FALSE) \o ")"
           [] v.t = "Nil"    -> "nil"
           [] v.t = "Symbol" -> v.s
           [] v.t = "Func"   -> "#func()"
           [] v.t = "AFunc"  -> IF v.is_macro THEN "#macro()" ELSE "#builtin_func()"

(***************************************************************************)
(* env.rs: frames and the lookup chain.  parent = 0 is None.               *)
(***************************************************************************)
EmptyData == [k \in {} |-> c_nil]

EnvType(parent, data) == [parent |-> parent, data |-> data]

\* c_env allocates a fresh empty frame; the new frame is Len(h) + 1.
c_env(h, parent) == Append(h, EnvType(parent, EmptyData))

NoValue == [t |-> "None"]

\* mutant of env_find_inner: asks the parent frame but goes no further up
env_find_one_up(h, env, key) ==
    IF key \in DOMAIN h[env].data
    THEN h[env].data[key]
    ELSE IF h[env].parent # 0 /\ key \in DOMAIN h[h[env].parent].data
         THEN h[h[env].parent].data[key]
         ELSE NoValue

RECURSIVE env_find_inner(_, _, _)
env_find_inner(h, env, key) ==
    IF key \in DOMAIN h[env].data
    THEN h[env].data[key]
    ELSE IF h[env].parent # 0
         THEN env_find_inner(h, h[env].parent, key)
         ELSE NoValue

env_find(h, env, key) ==
    IF key.t = "Symbol" THEN env_find_inner(h, env, key.s) ELSE NoValue

env_get(h, env, key) == env_find(h, env, key)

data_insert(d, k, v) ==
    [n \in DOMAIN d \cup {k} |-> IF n = k THEN v ELSE d[n]]

\* the nearest frame of the chain of env that holds key; env when none does
RECURSIVE holder_of(_, _, _, _)
holder_of(h, env, key, local) ==
    IF key \in DOMAIN h[env].data THEN env
    ELSE IF h[env].parent # 0 THEN holder_of(h, h[env].parent, key, local)
    ELSE local

\* mutant of env_set: an assignment, the frame that already holds the name is
\* the one written
env_set_holder(h, env, key, value) ==
    [h EXCEPT ![holder_of(h, env, key.s, env)].data = data_insert(@, key.s, value)]

\* mutant of env_set: entry().or_insert(value), an existing binding is kept
env_set_keep(h, env, key, value) ==
    IF key.s \in DOMAIN h[env].data THEN h
    ELSE [h EXCEPT ![env].data = data_insert(@, key.s, value)]

\* env_set on a Symbol key; a non-symbol key reaches unreachable!()
env_set(h, env, key, value) ==
    [h EXCEPT ![env].data = data_insert(@, key.s, value)]

safe_get(args, index) ==
    IF index + 1 <= Len(args) THEN args[index + 1] ELSE c_nil

\* env_bind: Abort when a parameter is not a Symbol (env_set's unreachable!())
RECURSIVE env_bind_from(_, _, _, _, _)
env_bind_from(h, env, params, args, index) ==
    IF index >= Len(params) THEN [ok |-> TRUE, heap |-> h]
    ELSE IF params[index + 1].t # "Symbol" THEN [ok |-> FALSE, heap |-> h]
    ELSE env_bind_from(env_set(h, env, params[index + 1], safe_get(args, index)),
                       env, params, args, index + 1)

env_bind(h, env, params, args) == env_bind_from(h, env, params, args, 0)

(***************************************************************************)
(* data.rs / env.rs: the derived PartialEq.  The comparison of two         *)
(* closures compares their environments structurally, RefCell by RefCell,  *)
(* and an environment that (transitively) holds a closure over itself      *)
(* makes the comparison recurse for ever.  A comparison therefore yields   *)
(*   "T"  equal, "F"  unequal, "SO" the recursion never returns (stack     *)
(*   exhausted), "FS" unequal or stack exhausted, depending on the order   *)
(*   in which the hash map hands out its entries.                          *)
(* `path` is the set of environment pairs under comparison further up the  *)
(* recursion: meeting one of them again is the infinite descent.           *)
(***************************************************************************)
\* a && b, b looked at only when a is true
eq_and(a, b) == IF a = "T" THEN b ELSE a

\* Iterator::all over entries handed out in an unknown order
eq_all(results) ==
    LET hasF == \E r \in results : r \in {"F", "FS"}
        hasS == \E r \in results : r \in {"SO", "FS"}
    IN  IF hasF /\ hasS THEN "FS"
        ELSE IF hasF THEN "F"
        ELSE IF hasS THEN "SO"
        ELSE "T"

RECURSIVE atom_eq(_, _, _, _)
RECURSIVE vec_eq(_, _, _, _)
RECURSIVE env_eq(_, _, _, _)
\* impl PartialEq for AtomFn
atomfn_eq(f, g) == "F"

\* #[derive(PartialEq)] struct AFuncData: exp, env, params, is_macro in turn
afuncdata_eq(h, a, b, path) ==
    eq_and(atom_eq(h, a.exp, b.exp, path),
      eq_and(env_eq(h, a.env, b.env, path),
        eq_and(atom_eq(h, a.params, b.params, path),
               IF a.is_macro = b.is_macro THEN "T" ELSE "F")))

\* #[derive(PartialEq)] enum AtomType
atom_eq(h, a, b, path) ==
    IF a.t # b.t THEN "F"
    ELSE CASE a.t = "Nil"    -> "T"
           [] a.t = "Int"    -> IF a.n = b.n THEN "T" ELSE "F"
           [] a.t = "Symbol" -> IF a.s = b.s THEN "T" ELSE "F"
           [] a.t = "List"   -> IF Len(a.l) # Len(b.l) THEN "F"
                                ELSE vec_eq(h, a.l, b.l, path)
           [] a.t = "Func"   -> atomfn_eq(a.f, b.f)
           [] a.t = "AFunc"  -> afuncdata_eq(h, a, b, path)

\* Vec<AtomVal> of equal length, element by element
vec_eq(h, xs, ys, path) ==
    IF Len(xs) = 0 THEN "T"
    ELSE eq_and(atom_eq(h, xs[1], ys[1], path), vec_eq(h, Tail(xs), Tail(ys), path))

\* #[derive(PartialEq)] struct EnvType through Rc<RefCell<_>>: parent, then data
env_eq(h, e1, e2, path) ==
    IF <<e1, e2>> \in path THEN "SO"
    ELSE LET p1 == h[e1].parent
             p2 == h[e2].parent
             d1 == h[e1].data
             d2 == h[e2].data
             inner == path \cup {<<e1, e2>>}
             parents == IF p1 = 0 /\ p2 = 0 THEN "T"
                        ELSE IF p1 = 0 \/ p2 = 0 THEN "F"
                        ELSE env_eq(h, p1, p2, inner)
             data == IF Cardinality(DOMAIN d1) # Cardinality(DOMAIN d2) THEN "F"
                     ELSE eq_all({ IF k \in DOMAIN d2
                                   THEN atom_eq(h, d1[k], d2[k], inner)
                                   ELSE "F" : k \in DOMAIN d1 })
         IN  eq_and(parents, data)

(***************************************************************************)
(* core.rs: the host functions.  Each returns [r |-> AtomRet, may |->      *)
(* whether the call may instead have exhausted the stack].                 *)
(***************************************************************************)
Pow2(n) == 2 ^ n

\* `n as usize` for an i64 n
as_usize(n) == n % Pow2(UsizeBits)

get_int(v) == IF v.t = "Int" THEN Ok(v.n) ELSE Err(InvalidType("Int", format(v, TRUE)))

get_list(v) == IF v.t = "List" THEN Ok(v.l) ELSE Err(InvalidType("List", format(v, TRUE)))

unwrap_or(r, default) == IF r.ok THEN r.val ELSE default

list(h, args) == [r |-> Ok(c_list(args)), may |-> FALSE]

nth(h, args) ==
    LET n == unwrap_or(get_int(safe_get(args, 1)), 0)
        seq == get_list(safe_get(args, 0))
    IN  IF seq.ok
        THEN [r |-> Ok(safe_get(seq.val, as_usize(n))), may |-> FALSE]
        ELSE [r |-> seq, may |-> FALSE]

\* the comparisons of args[i+1] != args[i], i = 0 ..
partialeq_pairs(h, args) ==
    { atom_eq(h, args[i + 1], args[i], {}) : i \in 1 .. Len(args) - 1 }

partialeq(h, args) ==
    LET rs == partialeq_pairs(h, args)
    IN  IF "SO" \in rs THEN [r |-> Err(Abort("stack overflow")), may |-> FALSE]
        ELSE IF rs \cap {"F", "FS"} # {}
             THEN [r |-> Ok(c_nil), may |-> "FS" \in rs]
             ELSE [r |-> Ok(c_int(1)), may |-> FALSE]

\* the table of build(): the entries the model carries
HostNames == {"=", "nth", "list"}

host_call(name, h, args) ==
    CASE name = "="    -> partialeq(h, args)
      [] name = "nth"  -> nth(h, args)
      [] name = "list" -> list(h, args)

build == << EnvType(0, [k \in HostNames |-> c_func(k)]) >>

Root == 1

(***************************************************************************)
(* eval.rs and AtomType::apply.  An evaluation threads the state           *)
(*   st = [heap, log, may]                                                 *)
(* heap: the frames; log: the calls of eval and apply in the order they    *)
(* are entered, with their nesting level; may: TRUE once a comparison was  *)
(* met that exhausts the stack under some hash order.  Each operator       *)
(* returns [r |-> AtomRet, st |-> state afterwards].                       *)
(***************************************************************************)
Ret(r, st) == [r |-> r, st |-> st]

Logged(st, e) == [st EXCEPT !.log = Append(@, e)]

\* mutant of quote: the index is off by one, the head comes back
quote_head(args, st) == Ret(Ok(safe_get(args, 0)), st)

quote(args, st) == Ret(Ok(safe_get(args, 1)), st)

\* the bindings visible from env, nearest frame first
RECURSIVE visible(_, _)
visible(h, env) ==
    IF h[env].parent = 0 THEN h[env].data
    ELSE LET up == visible(h, h[env].parent)
             d == h[env].data
         IN  [k \in DOMAIN d \cup DOMAIN up |-> IF k \in DOMAIN d THEN d[k] ELSE up[k]]

\* mutant of lambda: the closure captures a copy of the bindings, not the frame
lambda_snapshot(args, env, st) ==
    LET h1 == Append(st.heap, EnvType(0, visible(st.heap, env)))
    IN  Ret(Ok(c_afunc(Len(h1), safe_get(args, 1), safe_get(args, 2))),
            [st EXCEPT !.heap = h1])

lambda(args, env, st) == Ret(Ok(c_afunc(env, safe_get(args, 1), safe_get(args, 2))), st)

\* params.iter().position(|v| v.is_symbol("&")), 0-based; -1 for None
RECURSIVE position_from(_, _)
position_from(params, index) ==
    IF index >= Len(params) THEN -1
    ELSE IF is_symbol(params[index + 1], "&") THEN index
    ELSE position_from(params, index + 1)

\* mutant of bind_rest: the tail is always a list, also when it is empty
bind_rest_list(h, func_env, params, args) ==
    LET args_count == position_from(params, 0)
    IN  IF args_count >= 0 /\ args_count + 2 <= Len(params)
        THEN env_set(h, func_env, params[args_count + 2],
                     c_list(SubSeq(args, args_count + 1, Len(args))))
        ELSE h

\* the `&` part of apply: the parameter after the marker takes the tail
bind_rest(h, func_env, params, args) ==
    LET args_count == position_from(params, 0)
    IN  IF args_count >= 0 /\ args_count + 2 <= Len(params)
        THEN LET restpar == params[args_count + 2]
                 rest == SubSeq(args, args_count + 1, Len(args))
             IN  IF Len(rest) # 0
                 THEN env_set(h, func_env, restpar, c_list(rest))
                 ELSE env_set(h, func_env, restpar, c_nil)
        ELSE h

RECURSIVE eval(_, _, _, _)
RECURSIVE eval_each(_, _, _, _, _)
RECURSIVE apply(_, _, _, _)
\* mutant of def: the right-hand side is evaluated in env itself, no child frame
def_in_env(args, env, st, lvl) ==
    IF Len(args) < 2
    THEN Ret(Err(InvalidType("Symbol as name of def", "nil")), st)
    ELSE LET name == args[2]
         IN  IF name.t = "Symbol"
             THEN LET value == eval(safe_get(args, 2), env, st, lvl + 1)
                  IN  IF value.r.ok
                      THEN Ret(Ok(c_nil),
                               [value.st EXCEPT !.heap = env_set(@, env, name, value.r.val)])
                      ELSE value
             ELSE Ret(Err(InvalidType("Symbol as name of def", format(name, TRUE))), st)

def(args, env, st, lvl) ==
    IF Len(args) < 2
    THEN Ret(Err(InvalidType("Symbol as name of def", "nil")), st)
    ELSE LET name == args[2]
         IN  IF name.t = "Symbol"
             THEN LET h1 == c_env(st.heap, env)
                      value == eval(safe_get(args, 2), Len(h1), [st EXCEPT !.heap = h1], lvl + 1)
                  IN  IF value.r.ok
                      THEN Ret(Ok(c_nil),
                               [value.st EXCEPT !.heap = env_set(@, env, name, value.r.val)])
                      ELSE value
             ELSE Ret(Err(InvalidType("Symbol as name of def", format(name, TRUE))), st)

\* mutant of eval_each: every element is evaluated, then the first Err is reported
eval_each_all(args, env, st, lvl, index) ==
    IF index > Len(args) THEN Ret(Ok(<<>>), st)
    ELSE LET first == eval(args[index], env, st, lvl + 1)
             others == eval_each(args, env, first.st, lvl, index + 1)
         IN  IF ~first.r.ok THEN Ret(first.r, others.st)
             ELSE IF ~others.r.ok THEN others
             ELSE Ret(Ok(<<first.r.val>> \o others.r.val), others.st)

\* eval_each: the elements from `index` on, in turn, stopping at the first Err
eval_each(args, env, st, lvl, index) ==
    IF index > Len(args) THEN Ret(Ok(<<>>), st)
    ELSE LET first == eval(args[index], env, st, lvl + 1)
         IN  IF ~first.r.ok THEN first
             ELSE LET others == eval_each(args, env, first.st, lvl, index + 1)
                  IN  IF ~others.r.ok THEN others
                      ELSE Ret(Ok(<<first.r.val>> \o others.r.val), others.st)

eval_ast(ast, env, st, lvl) ==
    CASE ast.t = "List" ->
           LET args == eval_each(ast.l, env, st, lvl, 1)
           IN  IF args.r.ok THEN Ret(Ok(c_list(args.r.val)), args.st) ELSE args
      [] ast.t = "Symbol" ->
           LET atom == env_get(st.heap, env, ast)
           IN  IF atom # NoValue THEN Ret(Ok(atom), st)
               ELSE Ret(Err(UndefinedSymbol(ast.s)), st)
      [] OTHER -> Ret(Ok(ast), st)

eval_exp(ast, env, st, lvl) ==
    LET args == ast.l
    IN  IF Len(args) = 0 THEN Ret(Ok(ast), st)
        ELSE LET opName == IF args[1].t = "Symbol" THEN args[1].s ELSE "__func__"
             IN  CASE opName = "quote" -> quote(args, st)
                   [] opName = "def" -> def(args, env, st, lvl)
                   [] opName = "print_env" -> Ret(Ok(c_nil), st)
                   [] opName = "fn*" -> lambda(args, env, st)
                   [] OTHER ->
                        LET evaled_args == eval_ast(ast, env, st, lvl)
                        IN  IF ~evaled_args.r.ok THEN evaled_args
                            ELSE apply(evaled_args.r.val.l[1],
                                       Tail(evaled_args.r.val.l), evaled_args.st, lvl)

eval(ast, env, st0, lvl) ==
    LET st == Logged(st0, [ev |-> "eval", ast |-> ast, env |-> env, lvl |-> lvl])
    IN  IF lvl > MaxDepth THEN Ret(Err(Abort("stack overflow")), st)
        ELSE IF ast.t = "List" THEN eval_exp(ast, env, st, lvl)
        ELSE eval_ast(ast, env, st, lvl)

\* mutant of not_callable: the callee rendered plainly, as Display does
not_callable_plain(self) == Err(InvalidType("function", format(self, FALSE)))

\* the last arm of apply: the callee is neither Func nor AFunc
not_callable(self) == Err(InvalidType("function", format(self, TRUE)))

\* AtomType::apply
apply(self, args, st0, lvl) ==
    LET st == Logged(st0, [ev |-> "apply", callee |-> self, args |-> args, lvl |-> lvl])
    IN  CASE self.t = "Func" ->
               LET out == host_call(self.f, st.heap, args)
               IN  Ret(out.r, [st EXCEPT !.may = @ \/ out.may])
          [] self.t = "AFunc" ->
               LET h1 == c_env(st.heap, self.env)
                   func_env == Len(h1)
               IN  IF self.params.t = "List"
                   THEN LET bound == env_bind(h1, func_env, self.params.l, args)
                        IN  IF ~bound.ok
                            THEN Ret(Err(Abort("unreachable")), [st EXCEPT !.heap = bound.heap])
                            ELSE eval(self.exp, func_env,
                                      [st EXCEPT !.heap = bind_rest(bound.heap, func_env,
                                                                    self.params.l, args)],
                                      lvl + 1)
                   ELSE Ret(Err(InvalidType("list", format(self.params, TRUE))),
                            [st EXCEPT !.heap = h1])
          [] OTHER -> Ret(not_callable(self), st)

(***************************************************************************)
(* The state machine.  heap: the frames, frame Root being the environment  *)
(* of build(); hist: the top-level evaluations made so far against Root;   *)
(* last: the most recent operation.                                        *)
(***************************************************************************)
NoOp == [op |-> "init"]

IsAbort(r) == IF r.ok THEN FALSE ELSE r.err.kind = "Abort"

\* the process is still running: nothing has panicked or exhausted the stack
Alive == IF last.op = "init" THEN TRUE ELSE ~IsAbort(last.r)

Init ==
    /\ heap = build
    /\ hist = <<>>
    /\ last = NoOp

\* eval(ast, env) on the global environment, as the tests and the loader do
EvalTop(form) ==
    /\ Alive
    /\ Len(hist) < MaxSteps
    /\ LET out == eval(form, Root, [heap |-> heap, log |-> <<>>, may |-> FALSE], 0)
       IN  \E crashed \in (IF out.st.may THEN {FALSE, TRUE} ELSE {FALSE}) :
             LET entry == [op |-> "eval", form |-> form, env |-> Root,
                           r |-> IF crashed THEN Err(Abort("stack overflow")) ELSE out.r,
                           pre |-> heap, post |-> out.st.heap, log |-> out.st.log]
             IN  /\ heap' = out.st.heap
                 /\ hist' = Append(hist, entry)
                 /\ last' = entry

\* shorthands for building expression trees
S(name) == c_symbol(name)

L(seq) == c_list(seq)

I(num) == c_int(num)

DefX1 == L(<<S("def"), S("x"), I(1)>>)

DefX2 == L(<<S("def"), S("x"), I(2)>>)

DefGetx == L(<<S("def"), S("getx"), L(<<S("fn*"), L(<<>>), S("x")>>)>>)

CallGetx == L(<<S("getx")>>)

DefYX == L(<<S("def"), S("y"), S("x")>>)

DefXBad == L(<<S("def"), S("x"), S("undefined")>>)

\* ((fn* (g a) (g)) (fn* () x) (def x 2)): the closure over x is made in the
\* global frame itself, x is rebound there, and only then is the closure applied
RebindThenCall ==
    L(<<L(<<S("fn*"), L(<<S("g"), S("a")>>), L(<<S("g")>>)>>),
        L(<<S("fn*"), L(<<>>), S("x")>>),
        DefX2>>)

FormsDef == {DefX1, DefX2, DefGetx, CallGetx, DefYX, DefXBad, S("x"), S("y"), RebindThenCall}

Next == \E form \in FormsDef : EvalTop(form)

Spec == Init /\ [][Next]_vars

(***************************************************************************)
(* Properties of def and of closures over the global environment.          *)
(***************************************************************************)
IsDefOf(form, name) ==
    /\ form.t = "List"
    /\ Len(form.l) >= 2
    /\ form.l[1] = S("def")
    /\ form.l[2] = S(name)

\* entry i of hist is a def of name that succeeded
DefDone(i, name) == IsDefOf(hist[i].form, name) /\ hist[i].r.ok

\* entry i wrote the binding of name in the global frame: by a def at the
\* top level, or through the def of x inside RebindThenCall
Rebinds(i, name) ==
    \/ DefDone(i, name)
    \/ (name = "x" /\ hist[i].form = RebindThenCall)

\* what the right-hand side of the def in entry i stands for: a literal, the
\* binding of a symbol before the def, or a closure over the transient frame
RhsValue(i) ==
    LET rhs == safe_get(hist[i].form.l, 2)
        pre == hist[i].pre
    IN  CASE rhs.t = "Symbol" -> env_get(pre, Root, rhs)
          [] rhs.t = "List" -> c_afunc(Len(pre) + 1, safe_get(rhs.l, 1), safe_get(rhs.l, 2))
          [] OTHER -> rhs

\* the value entry i left bound, entry i being one that Rebinds
BoundValue(i) == IF hist[i].form = RebindThenCall THEN I(2) ELSE RhsValue(i)

DefNames == {"x", "y", "getx"}

\* C1: once x is bound to v1 by def, a closure whose body is x is created, x
\* is rebound by def to v2 and the closure is then applied, the application
\* returns v2: the closure reads x from the live captured environment.
\* This holds for a closure kept by a def (it captures the transient child
\* of the global frame) and for one made in the global frame itself.
ClosureSeesRebinding ==
    /\ \A i, j, k, l \in DOMAIN hist :
          ( /\ i < j /\ j < k /\ k < l
            /\ DefDone(i, "x")
            /\ hist[j].form = DefGetx /\ hist[j].r.ok
            /\ DefDone(k, "x")
            /\ \A m \in (k + 1) .. (l - 1) : ~Rebinds(m, "x")
            /\ hist[l].form = CallGetx )
          => hist[l].r = Ok(RhsValue(k))
    /\ \A i, l \in DOMAIN hist :
          (i < l /\ DefDone(i, "x") /\ hist[l].form = RebindThenCall)
          => hist[l].r = Ok(I(2))

\* C1 witness: x = 1, closure built, x = 2, closure applied and 2 observed
ClosureSeesRebindingWitness ==
    /\ Len(hist) = 4
    /\ hist[1].form = DefX1 /\ hist[2].form = DefGetx
    /\ hist[3].form = DefX2 /\ hist[4].form = CallGetx
    /\ hist[4].r = Ok(I(2))

\* C2: a successful (def name expr) returns Nil and binds name in the same
\* environment to the value of expr; the binding seen by later lookups is
\* that of the most recent successful def of the name.
DefBindsMostRecent ==
    \A name \in DefNames : \A i \in DOMAIN hist :
        Rebinds(i, name) =>
            /\ DefDone(i, name) => hist[i].r = Ok(c_nil)
            /\ \A j \in i .. Len(hist) :
                 (\A m \in (i + 1) .. j : ~Rebinds(m, name))
                 => /\ env_get(hist[j].post, Root, S(name)) = BoundValue(i)
                    /\ (hist[j].form = S(name) => hist[j].r = Ok(BoundValue(i)))

\* C2 witness: (def x 1), (def x 2), then x evaluates to 2
DefBindsMostRecentWitness ==
    \E i, j, k \in DOMAIN hist :
        /\ i < j /\ j < k
        /\ hist[i].form = DefX1 /\ hist[i].r = Ok(c_nil)
        /\ hist[j].form = DefX2 /\ hist[j].r = Ok(c_nil)
        /\ hist[k].form = S("x") /\ hist[k].r = Ok(I(2))

(***************************************************************************)
(* The environment API on its own, as the tests of env.rs use it: frames   *)
(* are created with c_env, written with env_set and read with env_get or   *)
(* by evaluating a symbol.  A frame writes its own index as the value, so  *)
(* that a value read tells which frame supplied it.                        *)
(***************************************************************************)
EnvKeys == {"a", "b"}

InitEnv ==
    /\ heap = c_env(<<>>, 0)
    /\ hist = <<>>
    /\ last = NoOp

NewChild(parent) ==
    /\ Len(heap) < MaxFrames
    /\ heap' = c_env(heap, parent)
    /\ last' = [op |-> "c_env", env |-> Len(heap) + 1, r |-> Ok(c_nil)]
    /\ UNCHANGED hist

EnvSet(env, key) ==
    /\ heap' = env_set(heap, env, S(key), I(env))
    /\ heap' # heap
    /\ last' = [op |-> "env_set", env |-> env, r |-> Ok(c_nil)]
    /\ UNCHANGED hist

\* env_get(env, key) and eval(key, env) of the symbol
Lookup(env, key) ==
    /\ last' = [op |-> "lookup", env |-> env, key |-> key,
                got |-> env_get(heap, env, S(key)),
                r |-> eval(S(key), env, [heap |-> heap, log |-> <<>>, may |-> FALSE], 0).r]
    /\ UNCHANGED <<heap, hist>>

NextEnv ==
    \/ \E parent \in DOMAIN heap : NewChild(parent)
    \/ \E env \in DOMAIN heap, key \in EnvKeys : EnvSet(env, key)
    \/ \E env \in DOMAIN heap, key \in EnvKeys : Lookup(env, key)

SpecEnv == InitEnv /\ [][NextEnv]_vars

\* the frame d steps up the chain from env; 0 beyond the root
RECURSIVE Up(_, _, _)
Up(h, env, d) ==
    IF env = 0 \/ d = 0 THEN env ELSE Up(h, h[env].parent, d - 1)

\* the distances at which a frame of the chain of env holds key
Holders(h, env, key) ==
    { d \in 0 .. Len(h) : Up(h, env, d) # 0 /\ key \in DOMAIN h[Up(h, env, d)].data }

Nearest(h, env, key) ==
    Up(h, env, CHOOSE d \in Holders(h, env, key) : \A e \in Holders(h, env, key) : d <= e)

\* C3: a lookup returns the binding of the nearest frame of the chain that
\* holds the name; when no frame up to the root holds it, env_get misses and
\* evaluating the symbol fails with UndefinedSymbol carrying the name.
LookupNearestFrame ==
    last.op = "lookup" =>
        IF Holders(heap, last.env, last.key) = {}
        THEN /\ last.got = NoValue
             /\ last.r = Err(UndefinedSymbol(last.key))
        ELSE /\ last.got = heap[Nearest(heap, last.env, last.key)].data[last.key]
             /\ last.r = Ok(last.got)

\* C3 witness: a grandchild without the name reads its parent's binding,
\* which shadows the root's binding of the same name
LookupNearestFrameWitness ==
    /\ last.op = "lookup"
    /\ last.key \notin DOMAIN heap[last.env].data
    /\ heap[last.env].parent # 0
    /\ last.key \in DOMAIN heap[heap[last.env].parent].data
    /\ heap[heap[last.env].parent].parent = 1
    /\ last.key \in DOMAIN heap[1].data
    /\ last.got = I(heap[last.env].parent)
    /\ last.r = Ok(last.got)

(***************************************************************************)
(* AtomType::apply on a closure over the global environment, with the      *)
(* parameter list and the arguments drawn from small sets.                 *)
(***************************************************************************)
SeqsUpTo(set, n) == UNION { [1 .. m -> set] : m \in 0 .. n }

ParamSyms == {S("a"), S("b"), S("&"), S("r")}

ArgVals == {I(1), I(2)}

ApplyClosure(params, args) ==
    /\ last.op = "init"
    /\ LET closure == c_afunc(Root, L(params), I(0))
           out == apply(closure, args, [heap |-> heap, log |-> <<>>, may |-> FALSE], 0)
       IN  /\ heap' = out.st.heap
           /\ last' = [op |-> "apply", params |-> params, args |-> args,
                       func_env |-> Len(heap) + 1, r |-> out.r]
    /\ UNCHANGED hist

NextApply ==
    \E params \in SeqsUpTo(ParamSyms, MaxParams), args \in SeqsUpTo(ArgVals, MaxArgs) :
        ApplyClosure(params, args)

SpecApply == Init /\ [][NextApply]_vars

\* params is p1 .. pk & r with pairwise different names and one marker
IsVariadic(params, k) ==
    /\ Len(params) = k + 2
    /\ params[k + 1] = S("&")
    /\ \A i, j \in 1 .. Len(params) : i # j => params[i] # params[j]

\* C4: for parameters p1 .. pk & r (different names) applied to n arguments,
\* pi is bound to the i-th argument, or Nil when it is missing, and r to the
\* list of the arguments from position k on when n > k and to Nil when n <= k.
VariadicBinding ==
    last.op = "apply" =>
        \A k \in 0 .. MaxParams :
            IsVariadic(last.params, k) =>
                LET d == heap[last.func_env].data
                    n == Len(last.args)
                IN  /\ \A i \in 1 .. k :
                         d[last.params[i].s] = IF i <= n THEN last.args[i] ELSE c_nil
                    /\ d[last.params[k + 2].s] =
                         IF n > k THEN c_list(SubSeq(last.args, k + 1, n)) ELSE c_nil

\* C4 witness: (a & r) applied to three arguments binds r to the two extras
VariadicBindingWitness ==
    /\ last.op = "apply"
    /\ last.params = <<S("a"), S("&"), S("r")>>
    /\ last.args = <<I(1), I(2), I(1)>>
    /\ heap[last.func_env].data["a"] = I(1)
    /\ heap[last.func_env].data["r"] = c_list(<<I(2), I(1)>>)

(***************************************************************************)
(* Equality of function values through the host function `=`.              *)
(***************************************************************************)
Fn1 == L(<<S("fn*"), L(<<>>), I(1)>>)

EqHost == L(<<S("="), S("nth"), S("nth")>>)

EqFresh == L(<<S("="), Fn1, Fn1>>)

DefF == L(<<S("def"), S("f"), Fn1>>)

EqFF == L(<<S("="), S("f"), S("f")>>)

\* ((fn* (eq h a b c) (eq (h) (h))) = (fn* () (fn* () 1))
\*      (def = 1) (def nth 1) (def list 1))
\* `=` is fetched before the global frame is emptied of host functions, and
\* compares two closures made afterwards by h
EqClean ==
    L(<<L(<<S("fn*"), L(<<S("eq"), S("h"), S("a"), S("b"), S("c")>>),
            L(<<S("eq"), L(<<S("h")>>), L(<<S("h")>>)>>)>>),
        S("="),
        L(<<S("fn*"), L(<<>>), Fn1>>),
        L(<<S("def"), S("="), I(1)>>),
        L(<<S("def"), S("nth"), I(1)>>),
        L(<<S("def"), S("list"), I(1)>>)>>)

FormsEq == {EqHost, EqFresh, DefF, EqFF, EqClean}

NextEq == \E form \in FormsEq : EvalTop(form)

SpecEq == Init /\ [][NextEq]_vars

IsFunction(v) == v.t \in {"Func", "AFunc"}

\* the applications of `=` to two function values made by the last evaluation
EqOnFunctions ==
    { i \in DOMAIN last.log :
        LET e == last.log[i]
        IN  IF e.ev # "apply" THEN FALSE
            ELSE /\ e.callee = c_func("=")
                 /\ Len(e.args) = 2
                 /\ IsFunction(e.args[1]) /\ IsFunction(e.args[2]) }

\* C5: two HostFunction values or two Closure values never compare equal, so
\* `=` applied to two function values returns Nil.
FunctionsNeverEqual ==
    last.op = "eval" =>
        \A i \in EqOnFunctions :
            /\ atom_eq(last.post, last.log[i].args[1], last.log[i].args[2], {}) # "T"
            /\ last.r = Ok(c_nil)

(***************************************************************************)
(* quote.                                                                  *)
(***************************************************************************)
QuoteOf(f) == L(<<S("quote"), f>>)

Quoted ==
    { S("undefined"), L(<<S("undefined"), S("x")>>), DefX2, I(7), c_nil, S("x"),
      L(<<>>), QuoteOf(S("undefined")) }

FormsQuote == { QuoteOf(f) : f \in Quoted } \cup { DefX1, L(<<S("quote"), S("x"), S("undefined")>>) }

NextQuote == \E form \in FormsQuote : EvalTop(form)

SpecQuote == Init /\ [][NextQuote]_vars

IsQuoteForm(form) ==
    /\ form.t = "List"
    /\ Len(form.l) >= 2
    /\ form.l[1] = S("quote")

\* C9: (quote f) succeeds with f itself, whatever f is; nothing of f is
\* evaluated (the evaluator is entered once, for the quote form) and the
\* environment is left as it was.
QuoteReturnsFormUnevaluated ==
    (last.op = "eval" /\ IsQuoteForm(last.form)) =>
        /\ last.r = Ok(last.form.l[2])
        /\ Len(last.log) = 1
        /\ last.post = last.pre
        /\ heap = last.pre

\* C9 witness: (quote (undefined x)) gives the list, x being bound at the time
QuoteReturnsFormUnevaluatedWitness ==
    /\ last.op = "eval"
    /\ last.form = QuoteOf(L(<<S("undefined"), S("x")>>))
    /\ last.r = Ok(L(<<S("undefined"), S("x")>>))
    /\ env_get(heap, Root, S("x")) = I(1)
    /\ env_get(heap, Root, S("undefined")) = NoValue

(***************************************************************************)
(* The function-application path.                                          *)
(***************************************************************************)
DefA1 == L(<<S("def"), S("a"), I(1)>>)

DefB2 == L(<<S("def"), S("b"), I(2)>>)

CallInt == L(<<I(1), I(2)>>)

Undef == S("undefined")

FormsCall ==
    { CallInt,
      L(<<c_nil>>),
      L(<<QuoteOf(L(<<I(1)>>)), I(2)>>),
      L(<<DefA1, DefB2>>),
      L(<<S("list"), DefA1, Undef, DefB2>>),
      L(<<S("list"), DefB2, CallInt, Undef, DefA1>>),
      L(<<Undef, DefA1, CallInt>>),
      L(<<S("list"), DefA1, DefB2>>),
      L(<<L(<<S("fn*"), L(<<S("p")>>), S("p")>>), DefA1>>) }

NextCall == \E form \in FormsCall : EvalTop(form)

SpecCall == Init /\ [][NextCall]_vars

SpecialForms == {"quote", "def", "print_env", "fn*"}

\* a non-empty list whose head does not name a special form
IsCallForm(form) ==
    /\ form.t = "List"
    /\ Len(form.l) >= 1
    /\ ~(form.l[1].t = "Symbol" /\ form.l[1].s \in SpecialForms)

\* the applications made by the last evaluation for the top-level form itself
TopApplies == { i \in DOMAIN last.log : last.log[i].ev = "apply" /\ last.log[i].lvl = 0 }

\* C6 as stated: a callee that is neither HostFunction nor Closure makes the
\* evaluation fail with the error kind NotCallable.
CalleeNotCallableKind ==
    (last.op = "eval" /\ IsCallForm(last.form)) =>
        \A i \in TopApplies :
            ~IsFunction(last.log[i].callee)
            => (~last.r.ok /\ last.r.err.kind = "NotCallable")

\* C6 amended: a callee that is neither HostFunction nor Closure makes the
\* evaluation fail with InvalidType("function", tagged rendering of the
\* callee), the type-mismatch kind; no value is returned.
CalleeNotCallableInvalidType ==
    (last.op = "eval" /\ IsCallForm(last.form)) =>
        \A i \in TopApplies :
            ~IsFunction(last.log[i].callee)
            => last.r = Err(InvalidType("function", format(last.log[i].callee, TRUE)))

\* C6 witness: (1 2) fails with InvalidType("function", "Int(1)")
CalleeNotCallableWitness ==
    /\ last.op = "eval"
    /\ last.form = CallInt
    /\ TopApplies # {}
    /\ last.r = Err([kind |-> "InvalidType", expected |-> "function", received |-> "Int(1)"])

\* the error an element of FormsCall fails with wherever it is evaluated
FailsWith(e) ==
    IF e = Undef THEN Err(UndefinedSymbol("undefined"))
    ELSE IF e = CallInt THEN Err(InvalidType("function", "Int(1)"))
    ELSE Ok(c_nil)

BadElems(form) == { i \in DOMAIN form.l : ~FailsWith(form.l[i]).ok }

FirstBad(form) == CHOOSE i \in BadElems(form) : \A j \in BadElems(form) : i <= j

\* the elements of the top-level form in the order eval was entered for them
ElemsEvaluated ==
    LET cut == IF TopApplies = {} THEN Len(last.log) + 1
               ELSE CHOOSE i \in TopApplies : \A j \in TopApplies : i <= j
        evs == SelectSeq(SubSeq(last.log, 1, cut - 1),
                         LAMBDA e : e.ev = "eval" /\ e.lvl = 1)
    IN  [i \in DOMAIN evs |-> evs[i].ast]

IsDefElem(e) == e \in {DefA1, DefB2}

\* C10: the elements of an application are evaluated in index order, head
\* first; when one fails, the result is the error of the lowest-index failing
\* element, no later element is evaluated (a later def leaves its name as it
\* was before) and the callee is not applied.
ElementsInOrderFirstErrorWins ==
    (last.op = "eval" /\ IsCallForm(last.form)) =>
        LET elems == last.form.l
        IN  IF BadElems(last.form) = {}
            THEN ElemsEvaluated = elems
            ELSE LET k == FirstBad(last.form)
                 IN  /\ ElemsEvaluated = SubSeq(elems, 1, k)
                     /\ last.r = FailsWith(elems[k])
                     /\ TopApplies = {}
                     /\ \A i \in 1 .. (k - 1) :
                          IsDefElem(elems[i])
                          => env_get(last.post, Root, elems[i].l[2]) = elems[i].l[3]
                     /\ \A i \in (k + 1) .. Len(elems) :
                          (IsDefElem(elems[i]) /\ \A j \in 1 .. (k - 1) : elems[j] # elems[i])
                          => env_get(last.post, Root, elems[i].l[2])
                               = env_get(last.pre, Root, elems[i].l[2])

\* C10 witness: in (list (def b 2) (1 2) undefined (def a 1)) on a fresh
\* environment b is bound, the error is that of (1 2) and a stays unbound
ElementsInOrderFirstErrorWinsWitness ==
    /\ last.op = "eval"
    /\ last.form = L(<<S("list"), DefB2, CallInt, Undef, DefA1>>)
    /\ last.r = Err(InvalidType("function", "Int(1)"))
    /\ env_get(heap, Root, S("b")) = I(2)
    /\ env_get(heap, Root, S("a")) = NoValue
    /\ TopApplies = {}

(***************************************************************************)
(* Macros.  Nothing in eval.rs makes a macro; a host that embeds the       *)
(* interpreter gets one from c_macro and binds it with env_set.            *)
(***************************************************************************)
MacroBodies == {QuoteOf(I(1)), S("a")}

BindMacro(body) ==
    /\ Alive
    /\ heap' = env_set(heap, Root, S("m"), c_macro(c_afunc(Root, L(<<S("a")>>), body)))
    /\ heap' # heap
    /\ last' = [op |-> "bind", r |-> Ok(c_nil)]
    /\ UNCHANGED hist

MUndef == L(<<S("m"), Undef>>)

MDef == L(<<S("m"), DefX1>>)

FormsMacro == {MUndef, MDef, S("x")}

NextMacro ==
    \/ \E body \in MacroBodies : BindMacro(body)
    \/ \E form \in FormsMacro : EvalTop(form)

SpecMacro == Init /\ [][NextMacro]_vars

\* the last evaluation was a call whose head names a macro
LastCallsMacro ==
    IF last.op # "eval" THEN FALSE
    ELSE IF ~IsCallForm(last.form) THEN FALSE
    ELSE LET callee == env_get(last.pre, Root, last.form.l[1])
         IN  IF callee.t # "AFunc" THEN FALSE ELSE callee.is_macro

\* C7: when the callee is a Closure with is_macro set, the argument forms
\* are not evaluated before the call (only the head is), the closure is
\* applied to the raw forms, and an argument that would fail if evaluated
\* does not make the call fail.
MacroArgsNotEvaluated ==
    LastCallsMacro =>
        /\ ElemsEvaluated = <<last.form.l[1]>>
        /\ \A i \in TopApplies : last.log[i].args = Tail(last.form.l)
        /\ (last.form = MUndef => last.r.ok)

(***************************************************************************)
(* nth, called with a list and an index drawn from small sets.             *)
(***************************************************************************)
NthLists == { L(seq) : seq \in SeqsUpTo({I(7), I(8)}, MaxList) }

NthIndexes == { I(n) : n \in (0 - MaxList) .. (MaxList + 1) } \cup {c_nil, S("k"), L(<<>>)}

NthArgs == { <<l>> : l \in NthLists } \cup { <<l, i>> : l \in NthLists, i \in NthIndexes }

Nth(args) ==
    /\ last.op = "init"
    /\ last' = [op |-> "nth", args |-> args, r |-> nth(heap, args).r]
    /\ UNCHANGED <<heap, hist>>

NextNth == \E args \in NthArgs : Nth(args)

SpecNth == Init /\ [][NextNth]_vars

\* C8: nth of a list returns the i-th element for an Integer index i with
\* 0 <= i < length, and Nil for every other index: out of range, not an
\* Integer, or missing.
NthNilUnlessInRange ==
    last.op = "nth" =>
        LET seq == last.args[1].l
            idx == safe_get(last.args, 1)
        IN  IF idx.t = "Int" /\ 0 <= idx.n /\ idx.n < Len(seq)
            THEN last.r = Ok(seq[idx.n + 1])
            ELSE last.r = Ok(c_nil)

(***************************************************************************)
(* Writes and the frames they touch.  The chain is the one test_get of     *)
(* env.rs builds: a root holding a, its child holding b, and an empty      *)
(* grandchild.  Frames are written with env_set and env_bind, and a        *)
(* behaviour ends with the application of a closure over one of them.      *)
(***************************************************************************)
InitFrame ==
    /\ heap = LET root == env_set(c_env(<<>>, 0), 1, S("a"), I(10))
                  child == env_set(c_env(root, 1), 2, S("b"), I(20))
              IN  c_env(child, 2)
    /\ hist = <<>>
    /\ last = NoOp

BindParams == { <<S("a")>>, <<S("b"), S("a")>> }

BindArgs == { <<I(7)>> }

EnvBind(env, params, args) ==
    /\ LET bound == env_bind(heap, env, params, args)
       IN  /\ bound.ok
           /\ heap' = bound.heap
    /\ heap' # heap
    /\ last' = [op |-> "env_bind", env |-> env, r |-> Ok(c_nil)]
    /\ UNCHANGED hist

\* the closure bodies applied: a lookup, and a def of a name the chain holds
FrameBodies == { S("a"), L(<<S("def"), S("a"), I(9)>>) }

\* AtomType::apply of a closure that captured env
ApplyOver(env, params, args, body) ==
    /\ LET closure == c_afunc(env, L(params), body)
           out == apply(closure, args, [heap |-> heap, log |-> <<>>, may |-> FALSE], 0)
       IN  /\ heap' = out.st.heap
           /\ last' = [op |-> "apply", env |-> env, params |-> params, args |-> args,
                       func_env |-> Len(heap) + 1, r |-> out.r]
    /\ UNCHANGED hist

NextFrame ==
    /\ last.op # "apply"
    /\ \/ \E env \in DOMAIN heap, key \in EnvKeys : EnvSet(env, key)
       \/ \E env \in DOMAIN heap, params \in BindParams, args \in BindArgs :
            EnvBind(env, params, args)
       \/ \E env \in DOMAIN heap, params \in BindParams, args \in BindArgs,
             body \in FrameBodies : ApplyOver(env, params, args, body)

SpecFrame == InitFrame /\ [][NextFrame]_vars

\* C11: env_set and env_bind write only the frame they are called on: every
\* other frame keeps its bindings, so a lookup started at any other frame
\* that is not below the written one returns what it returned before; and
\* applying a closure binds the parameters in a fresh child of the captured
\* frame and leaves every frame that existed before as it was.
WritesStayInFrame ==
    [][ /\ last'.op \in {"env_set", "env_bind"} =>
             /\ Len(heap') = Len(heap)
             /\ \A f \in DOMAIN heap : f # last'.env => heap'[f] = heap[f]
             /\ \A f \in DOMAIN heap : \A k \in EnvKeys :
                  (\A d \in 0 .. Len(heap) : Up(heap, f, d) # last'.env)
                  => env_get(heap', f, S(k)) = env_get(heap, f, S(k))
        /\ last'.op = "apply" =>
             /\ \A f \in DOMAIN heap : heap'[f] = heap[f]
             /\ heap'[last'.func_env].parent = last'.env
             /\ \A i \in DOMAIN last'.params :
                  (\A j \in DOMAIN last'.params : j > i => last'.params[j] # last'.params[i])
                  => last'.params[i].s \in DOMAIN heap'[last'.func_env].data
      ]_vars

\* C11 witness: the grandchild has set a, a closure over the child has been
\* applied with parameter a bound to 7 in its own frame, and the root still
\* holds its a, which is what a lookup from the child returns
WritesStayInFrameWitness ==
    /\ last.op = "apply"
    /\ last.env = 2
    /\ last.params = <<S("a")>>
    /\ heap[last.func_env].parent = 2
    /\ env_get(heap, last.func_env, S("a")) = I(7)
    /\ env_get(heap, 3, S("a")) = I(3)
    /\ heap[1].data["a"] = I(10)
    /\ env_get(heap, 2, S("a")) = I(10)

(***************************************************************************)
(* def and the frames it touches.                                          *)
(***************************************************************************)
DefY1 == L(<<S("def"), S("y"), I(1)>>)

\* (def x (def y 1))
DefXDefY == L(<<S("def"), S("x"), DefY1>>)

\* (def 5 1)
DefBadName == L(<<S("def"), I(5), I(1)>>)

\* (def)
DefNoName == L(<<S("def")>>)

\* (def x (list (def y 1) undefined))
DefXFails == L(<<S("def"), S("x"), L(<<S("list"), DefY1, Undef>>)>>)

DefY2 == L(<<S("def"), S("y"), I(2)>>)

FormsDefFrame == {DefXDefY, DefBadName, DefNoName, DefXFails, DefX1, DefY2, S("x"), S("y")}

NextDefFrame == \E form \in FormsDefFrame : EvalTop(form)

SpecDefFrame == Init /\ [][NextDefFrame]_vars

IsDefForm(form) ==
    /\ form.t = "List"
    /\ Len(form.l) >= 1
    /\ form.l[1] = S("def")

HasSymbolName(form) ==
    IF Len(form.l) < 2 THEN FALSE ELSE form.l[2].t = "Symbol"

\* C12: the right-hand side of a def is evaluated in a transient child of
\* the current environment and the binding is written to the current one:
\* a def nested in the right-hand side binds its name in the child only, so
\* after (def x (def y 1)) x is bound to Nil and y is bound no differently
\* than before; when the name is not a symbol or the right-hand side fails,
\* def returns the error and the current environment is unchanged.
DefEvaluatesInChild ==
    (last.op = "eval" /\ IsDefForm(last.form)) =>
        LET pre == last.pre
            post == last.post
            child == Len(pre) + 1
        IN  /\ \A f \in 2 .. Len(pre) : post[f] = pre[f]
            /\ IF ~HasSymbolName(last.form)
               THEN /\ ~last.r.ok
                    /\ last.r.err.kind = "InvalidType"
                    /\ post = pre
               ELSE /\ Len(post) >= child
                    /\ post[child].parent = Root
                    /\ Len(last.log) >= 2
                    /\ last.log[2].env = child
                    /\ IF last.r.ok
                       THEN /\ last.r = Ok(c_nil)
                            /\ DOMAIN post[Root].data
                                 = DOMAIN pre[Root].data \cup {last.form.l[2].s}
                            /\ \A k \in DOMAIN pre[Root].data :
                                 k # last.form.l[2].s
                                 => post[Root].data[k] = pre[Root].data[k]
                       ELSE post[Root] = pre[Root]
            /\ last.form = DefXDefY =>
                 /\ last.r.ok
                 /\ env_get(post, Root, S("x")) = c_nil
                 /\ env_get(post, Root, S("y")) = env_get(pre, Root, S("y"))
                 /\ env_get(post, child, S("y")) = I(1)
            /\ last.form = DefXFails =>
                 /\ last.r = Err(UndefinedSymbol("undefined"))
                 /\ env_get(post, child, S("y")) = I(1)

\* C12 witness: after (def x (def y 1)) on an environment without y, x is
\* Nil, y is unbound in the global frame and bound to 1 in the transient child
DefEvaluatesInChildWitness ==
    /\ last.op = "eval"
    /\ last.form = DefXDefY
    /\ last.r = Ok(c_nil)
    /\ env_get(heap, Root, S("x")) = c_nil
    /\ env_get(heap, Root, S("y")) = NoValue
    /\ env_get(heap, Len(last.pre) + 1, S("y")) = I(1)

====
